---- MODULE Spec2Model ----
(***************************************************************************)
(* besett: nested settings dictionary (NestedDict), single settings file   *)
(* (File) and the settings Manager of src/besett.py.                       *)
(*                                                                         *)
(* A key string such as 'multi.level.default' is modelled by the sequence  *)
(* of its segments <<"multi","level","default">>; key.split(SEP, 1) is     *)
(* Head/Tail and SEP.join is concatenation.  None (no key) is <<>>.        *)
(* A Python value is a record [tag, s, l, d]:                              *)
(*   tag "S"  : a scalar (str, number, bool, None), named by s             *)
(*   tag "L"  : a list, elements in l                                      *)
(*   tag "PD" : a plain dict (as json.loads returns), entries in d         *)
(*   tag "ND" : a NestedDict, entries in d                                 *)
(* A dict keeps insertion order: entries are a sequence of [k, v] where k  *)
(* is the literal key string (again a sequence of segments: a plain dict   *)
(* may hold a key that contains the separator).                            *)
(***************************************************************************)
EXTENDS Naturals, Sequences, FiniteSets, TLC

VARIABLES
    ndict,              \* a NestedDict under direct use (NestedDictTests.setUp)
    file_groups,        \* Manager._file_groups: tier -> [isfile, files]
    autoload,           \* Manager._autoload
    mode_table,         \* Manager._mode: set of [key, mode]
    default_dict_mode,  \* Manager._default_dict_mode
    default_list_mode,  \* Manager._default_list_mode
    default_mode,       \* Manager._default_mode
    file,               \* a File object used on its own
    nops,               \* number of calls made so far
    out                 \* the last call: its name, arguments and outcome

vars == <<ndict, file, file_groups, autoload, mode_table, default_dict_mode,
          default_list_mode, default_mode, nops, out>>

mgr_vars == <<file_groups, autoload, mode_table, default_dict_mode,
              default_list_mode, default_mode, nops>>

----------------------------------------------------------------------------
(* Values *)

NoKey == <<>>

Scalar(x) == [tag |-> "S", s |-> x, l |-> <<>>, d |-> <<>>]
List(xs) == [tag |-> "L", s |-> "", l |-> xs, d |-> <<>>]
PlainDict(es) == [tag |-> "PD", s |-> "", l |-> <<>>, d |-> es]
NestedDict(es) == [tag |-> "ND", s |-> "", l |-> <<>>, d |-> es]
Entry(key, val) == [k |-> key, v |-> val]

None == Scalar("None")

\* isinstance(x, dict): NestedDict is a subclass of dict
IsDict(x) == x.tag \in {"PD", "ND"}

\* isinstance(x, NestedDict)
IsNestedDict(x) == x.tag = "ND"

\* isinstance(x, list)
IsList(x) == x.tag = "L"

\* key in d (the dict's own literal lookup)
dict_contains(es, key) == \E i \in 1..Len(es) : es[i].k = key

\* dict.__getitem__(d, key) for a key that is present
dict_getitem(es, key) == es[CHOOSE i \in 1..Len(es) : es[i].k = key].v

\* dict.__setitem__(d, key, val): an existing key keeps its position
dict_setitem(es, key, val) ==
    IF dict_contains(es, key)
    THEN [i \in 1..Len(es) |-> IF es[i].k = key THEN Entry(key, val) ELSE es[i]]
    ELSE Append(es, Entry(key, val))

\* dict.pop(d, key) for a key that is present: the entries without it
dict_remove(es, key) ==
    LET keep == {i \in 1..Len(es) : es[i].k # key}
        RECURSIVE Sel(_)
        Sel(i) == IF i > Len(es) THEN <<>>
                  ELSE (IF i \in keep THEN <<es[i]>> ELSE <<>>) \o Sel(i + 1)
    IN Sel(1)

\* Outcome of a call: st is "ok" or the name of the exception raised
Ok(x) == [st |-> "ok", val |-> x]
Raise(e) == [st |-> e, val |-> None]

----------------------------------------------------------------------------
(* NestedDict *)

RECURSIVE NestedDict_getitem(_, _)

\* val[key] for an arbitrary Python value val and a str key
Subscript(val, key) ==
    CASE val.tag = "ND" -> NestedDict_getitem(val, key)
      [] val.tag = "PD" -> IF dict_contains(val.d, key)
                           THEN Ok(dict_getitem(val.d, key))
                           ELSE Raise("KeyError")
      [] OTHER -> Raise("TypeError")

\* NestedDict.__getitem__
NestedDict_getitem(self, key) ==
    LET levels0 == <<Head(key)>>
    IN IF ~dict_contains(self.d, levels0)
       THEN Raise("KeyError")
       ELSE LET val == dict_getitem(self.d, levels0)
            IN IF Len(key) > 1 THEN Subscript(val, Tail(key)) ELSE Ok(val)

\* Outcome of a mutating call on a dict: st, and the dict as the call left it
Done(t) == [st |-> "ok", t |-> t]
Failed(e, t) == [st |-> e, t |-> t]

\* __setitem__ without the split into levels: the dotted key is stored whole
NestedDict_setitem_flat(self, key, val) ==
    Done(NestedDict(dict_setitem(self.d, key, val)))

RECURSIVE NestedDict_setitem(_, _, _)

\* NestedDict.__setitem__
NestedDict_setitem(self, key, val) ==
    LET levels0 == <<Head(key)>>
    IN IF Len(key) > 1
       THEN LET self1 == IF ~dict_contains(self.d, levels0)
                         THEN NestedDict(dict_setitem(self.d, levels0, NestedDict(<<>>)))
                         ELSE self
                subitem == dict_getitem(self1.d, levels0)
            IN IF ~IsDict(subitem)
               THEN Failed("KeyError", self1)
               ELSE IF IsNestedDict(subitem)
               THEN LET r == NestedDict_setitem(subitem, Tail(key), val)
                    IN [st |-> r.st,
                        t |-> NestedDict(dict_setitem(self1.d, levels0, r.t))]
               ELSE Done(NestedDict(dict_setitem(self1.d, levels0,
                            PlainDict(dict_setitem(subitem.d, Tail(key), val)))))
       ELSE Done(NestedDict(dict_setitem(self.d, key, val)))

RECURSIVE NestedDict_get(_, _, _)

\* NestedDict.get(key, default): the next level is asked with .get(levels[1]),
\* without the default; a plain dict child looks the remainder up as one key
NestedDict_get(self, key, default) ==
    LET levels0 == <<Head(key)>>
    IN IF Len(key) > 1
       THEN IF ~dict_contains(self.d, levels0) THEN Ok(default)
            ELSE LET child == dict_getitem(self.d, levels0)
                 IN CASE IsNestedDict(child) -> NestedDict_get(child, Tail(key), None)
                      [] child.tag = "PD" ->
                            IF dict_contains(child.d, Tail(key))
                            THEN Ok(dict_getitem(child.d, Tail(key)))
                            ELSE Ok(None)
                      [] OTHER -> Raise("AttributeError")
       ELSE IF dict_contains(self.d, key) THEN Ok(dict_getitem(self.d, key))
            ELSE Ok(default)

\* Outcome of pop: st, the dict as the call left it, and the value returned
Popped(t, val) == [st |-> "ok", t |-> t, val |-> val]
PopFailed(e, t) == [st |-> e, t |-> t, val |-> None]

RECURSIVE NestedDict_pop(_, _)

\* NestedDict.pop(key)
NestedDict_pop(self, key) ==
    LET levels0 == <<Head(key)>>
    IN IF Len(key) > 1
       THEN IF ~dict_contains(self.d, levels0) THEN PopFailed("KeyError", self)
            ELSE LET child == dict_getitem(self.d, levels0)
                 IN CASE IsNestedDict(child) ->
                            LET r == NestedDict_pop(child, Tail(key))
                            IN [st |-> r.st, val |-> r.val,
                                t |-> NestedDict(dict_setitem(self.d, levels0, r.t))]
                      [] child.tag = "PD" ->
                            IF dict_contains(child.d, Tail(key))
                            THEN Popped(NestedDict(dict_setitem(self.d, levels0,
                                            PlainDict(dict_remove(child.d, Tail(key))))),
                                        dict_getitem(child.d, Tail(key)))
                            ELSE PopFailed("KeyError", self)
                      [] IsList(child) -> PopFailed("TypeError", self)
                      [] OTHER -> PopFailed("AttributeError", self)
       ELSE IF dict_contains(self.d, key)
            THEN Popped(NestedDict(dict_remove(self.d, key)), dict_getitem(self.d, key))
            ELSE PopFailed("KeyError", self)

RECURSIVE iter_flat(_)

\* NestedDict.iter_flat, on the entries of self: the (key, value) pairs yielded
iter_flat(es) ==
    IF es = <<>> THEN <<>>
    ELSE LET e == Head(es)
             sub == iter_flat(e.v.d)
         IN (IF IsNestedDict(e.v)
             THEN [i \in 1..Len(sub) |-> Entry(e.k \o sub[i].k, sub[i].v)]
             ELSE <<e>>) \o iter_flat(Tail(es))

RECURSIVE set_each(_, _)

\* the loop of NestedDict.update: self[k] = v for each pair, until one raises
set_each(self, items) ==
    IF items = <<>> THEN Done(self)
    ELSE LET r == NestedDict_setitem(self, Head(items).k, Head(items).v)
         IN IF r.st # "ok" THEN r ELSE set_each(r.t, Tail(items))

\* NestedDict.update(src): incoming = type(self)(src) copies src's entries
NestedDict_update(self, src) == set_each(self, iter_flat(src.d))

----------------------------------------------------------------------------
(* The settings files on disk: the value json.loads returns for each *)

S(x) == Scalar(x)

FileNames == {"default.json", "flat.json", "nested.json", "flat2.json"}

\* a path that does not exist on disk
MissingPath == "missing.json"

\* os.path.exists(fpath)
exists(fpath) == fpath \in FileNames

\* json.loads(data) of the file at fpath
json_loads(fpath) ==
    CASE fpath = "default.json" ->
            PlainDict(<< Entry(<<"k">>, S("A")),
                         Entry(<<"m">>, S("5")),
                         Entry(<<"l">>, List(<<S("1"), S("2")>>)) >>)
      [] fpath = "flat.json" ->
            PlainDict(<< Entry(<<"k">>, S("B")),
                         Entry(<<"m", "a", "x">>, S("1")),
                         Entry(<<"l">>, List(<<S("3")>>)),
                         Entry(<<"p", "q">>, S("7")) >>)
      [] fpath = "nested.json" ->
            PlainDict(<< Entry(<<"k">>, S("B")),
                         Entry(<<"m">>, PlainDict(<< Entry(<<"a">>,
                                PlainDict(<< Entry(<<"x">>, S("1")) >>)) >>)),
                         Entry(<<"l">>, List(<<S("3")>>)),
                         Entry(<<"p">>, PlainDict(<< Entry(<<"q">>, S("7")) >>)) >>)
      [] fpath = "flat2.json" ->
            PlainDict(<< Entry(<<"m", "a", "y">>, S("2")) >>)

----------------------------------------------------------------------------
(* File *)

NoPath == "None"

\* a File object: _path and _settings
FileObj(path, settings) == [path |-> path, settings |-> settings]

\* Outcome of a File method: st, and the File as the call left it
FDone(f) == [st |-> "ok", f |-> f]

\* File._parse on the content of fpath: self._settings.update(file_settings)
File_parse(self, fpath) ==
    LET r == NestedDict_update(self.settings, json_loads(fpath))
    IN [st |-> r.st, f |-> FileObj(self.path, r.t)]

\* File.read
File_read(self, fpath) ==
    IF fpath # NoPath /\ exists(fpath)
    THEN File_parse(FileObj(fpath, self.settings), fpath)
    ELSE FDone(FileObj(NoPath, self.settings))

\* File.__init__
File_init(fpath, auto) ==
    LET self == FileObj(fpath, NestedDict(<<>>))
    IN IF auto /\ fpath # NoPath THEN File_read(self, fpath) ELSE FDone(self)

\* a reset that clears the settings and keeps the path
File_reset_keep_path(self) == FileObj(self.path, NestedDict(<<>>))

\* File.reset
File_reset(self) == FileObj(NoPath, NestedDict(<<>>))

\* File.reload
File_reload(self) == File_read(FileObj(self.path, NestedDict(<<>>)), self.path)

\* File.deepen
deepen(self, toplevel) ==
    FileObj(self.path, NestedDict_setitem(NestedDict(<<>>), toplevel, self.settings).t)

\* File.__getitem__
File_getitem(self, key) == NestedDict_getitem(self.settings, key)

\* File.get
File_get(self, key, default) ==
    LET r == File_getitem(self, key)
    IN IF r.st = "KeyError" THEN Ok(default) ELSE r

\* File.set / File.__setitem__
File_set(self, key, value) ==
    LET r == NestedDict_setitem(self.settings, key, value)
    IN [st |-> r.st, f |-> FileObj(self.path, r.t)]

RECURSIVE deepcopy(_)
RECURSIVE deepcopy_items(_, _)

\* copy.deepcopy rebuilds a dict subclass with y[key] = value
deepcopy_items(y, es) ==
    IF es = <<>> THEN y
    ELSE deepcopy_items(NestedDict_setitem(y, Head(es).k, deepcopy(Head(es).v)).t,
                        Tail(es))

\* copy.deepcopy(x)
deepcopy(x) ==
    CASE x.tag = "ND" -> deepcopy_items(NestedDict(<<>>), x.d)
      [] x.tag = "PD" -> PlainDict([i \in 1..Len(x.d) |->
                                      Entry(x.d[i].k, deepcopy(x.d[i].v))])
      [] x.tag = "L" -> List([i \in 1..Len(x.l) |-> deepcopy(x.l[i])])
      [] OTHER -> x

\* File.all
File_all(self) == deepcopy(self.settings)

----------------------------------------------------------------------------
(* Manager: the file groups *)

\* CombineMode
OVERRIDE == "OVERRIDE"
MERGE == "MERGE"
CombineMode == {OVERRIDE, MERGE}

\* the keys of Manager._file_groups, in increasing priority
Tiers == <<"default", "plugin", "user", "runtime">>
TierSet == {Tiers[i] : i \in 1..Len(Tiers)}

NoGroup == "None"

\* a value of _file_groups: a File object (isfile) or a list of File objects
GroupList(fs) == [isfile |-> FALSE, files |-> fs]
GroupFile(f) == [isfile |-> TRUE, files |-> <<f>>]

\* a File of the manager is named by its tier and its position in the tier
Ref(g, i) == [g |-> g, i |-> i]
NoRef == Ref("", 0)
file_at(fg, ref) == fg[ref.g].files[ref.i]

\* str.lower() on the group keys in use
lower(groupkey) == IF groupkey = "Runtime" THEN "runtime" ELSE groupkey

Reverse(seq) == [i \in 1..Len(seq) |-> seq[Len(seq) + 1 - i]]

RECURSIVE iter_groups(_, _, _)

\* the loop of Manager.iter_files over the (fgroup, files) pairs in `groups`
iter_groups(fg, groups, groupkey) ==
    IF groups = <<>> THEN <<>>
    ELSE LET fgroup == Head(groups)
             files == fg[fgroup]
         IN (IF groupkey \in {NoGroup, fgroup}
             THEN IF files.isfile
                  THEN <<Ref(fgroup, 1)>>
                  ELSE [i \in 1..Len(files.files) |-> Ref(fgroup, i)]
             ELSE <<>>) \o iter_groups(fg, Tail(groups), groupkey)

\* Manager.iter_files: the Files yielded, in order
iter_files(fg, groupkey, reverse) ==
    iter_groups(fg, IF reverse THEN Reverse(Tiers) ELSE Tiers, groupkey)

----------------------------------------------------------------------------
(* Manager._getex *)

RECURSIVE loc_of(_, _)

\* where self[key] lives inside self: the literal keys on the way to it
loc_of(self, key) ==
    IF Len(key) = 1 THEN <<key>>
    ELSE LET val == dict_getitem(self.d, <<Head(key)>>)
         IN IF IsNestedDict(val) THEN <<(<<Head(key)>>)>> \o loc_of(val, Tail(key))
            ELSE << <<Head(key)>>, Tail(key) >>

RECURSIVE collect(_, _, _)

\* the loop "for f in files: try: all_settings.append(f[key])": each value found,
\* with the File it is an object of and its place in that File
collect(fg, files, key) ==
    IF files = <<>> THEN [st |-> "ok", items |-> <<>>]
    ELSE LET f == file_at(fg, Head(files))
             r == File_getitem(f, key)
             more == collect(fg, Tail(files), key)
         IN IF r.st = "KeyError" THEN more
            ELSE IF r.st # "ok" THEN [st |-> r.st, items |-> <<>>]
            ELSE [st |-> more.st,
                  items |-> IF more.st = "ok"
                            THEN <<[val |-> r.val, ref |-> Head(files),
                                    loc |-> loc_of(f.settings, key)]>> \o more.items
                            ELSE <<>>]

\* "all_settings = [f.all() for f in files]": deep copies, objects of no File
collect_all(fg, files) ==
    [st |-> "ok",
     items |-> [i \in 1..Len(files) |->
                  [val |-> File_all(file_at(fg, files[i])), ref |-> NoRef, loc |-> <<>>]]]

\* a mode lookup that ignores the modes registered with set_mode
mode_unregistered(key, default) == default

\* Manager.mode
mode(key, default) ==
    IF key \in DOMAIN mode_table THEN mode_table[key] ELSE default

RECURSIVE iter_flat_loc(_)

\* for each pair iter_flat yields: the literal keys from self down to the value
iter_flat_loc(es) ==
    IF es = <<>> THEN <<>>
    ELSE LET e == Head(es)
             sub == iter_flat_loc(e.v.d)
         IN (IF IsNestedDict(e.v)
             THEN [i \in 1..Len(sub) |-> <<e.k>> \o sub[i]]
             ELSE << <<e.k>> >>) \o iter_flat_loc(Tail(es))

RECURSIVE pd_hit(_, _)

\* whether self[key] = v ends in the __setitem__ of a plain dict held by self:
\* the path q of that dict in self and the literal key `rest` set in it
pd_hit(self, key) ==
    LET nohit == [hit |-> FALSE, q |-> <<>>, rest |-> <<>>]
    IN IF Len(key) <= 1 \/ ~dict_contains(self.d, <<Head(key)>>) THEN nohit
       ELSE LET sub == dict_getitem(self.d, <<Head(key)>>)
            IN CASE sub.tag = "PD" ->
                      [hit |-> TRUE, q |-> <<Head(key)>>, rest |-> Tail(key)]
                 [] sub.tag = "ND" ->
                      LET h == pd_hit(sub, Tail(key))
                      IN [hit |-> h.hit, q |-> <<Head(key)>> \o h.q, rest |-> h.rest]
                 [] OTHER -> nohit

RECURSIVE poke_tree(_, _, _, _)

\* the dict x after d[rest] = v on the plain dict d found in x along loc
poke_tree(x, loc, rest, v) ==
    IF loc = <<>> THEN PlainDict(dict_setitem(x.d, rest, v))
    ELSE [x EXCEPT !.d = dict_setitem(x.d, Head(loc),
              poke_tree(dict_getitem(x.d, Head(loc)), Tail(loc), rest, v))]

\* the file groups after that assignment on an object of the File at ref
poke(fg, ref, loc, rest, v) ==
    [fg EXCEPT ![ref.g].files[ref.i].settings =
        poke_tree(fg[ref.g].files[ref.i].settings, loc, rest, v)]

IsPrefix(p, q) == Len(p) <= Len(q) /\ SubSeq(q, 1, Len(p)) = p

\* one "self[k] = v" of to_return.update(d).  acc.t is to_return; acc.orig tells,
\* for each plain dict that to_return holds, which File object it is (the values
\* are stored by reference, not copied); acc.fg are the file groups
merge_set(acc, k, v, ref, loc) ==
    LET h == pd_hit(acc.t, k)
        r == NestedDict_setitem(acc.t, k, v)
        src == {o \in acc.orig : o.q = h.q}
        fg1 == IF h.hit /\ src # {}
               THEN LET o == CHOOSE o \in src : TRUE
                    IN poke(acc.fg, o.ref, o.loc, h.rest, v)
               ELSE acc.fg
        orig1 == IF r.st # "ok" \/ h.hit THEN acc.orig
                 ELSE {o \in acc.orig : ~IsPrefix(k, o.q)}
                      \cup (IF ref # NoRef /\ v.tag = "PD"
                            THEN {[q |-> k, ref |-> ref, loc |-> loc]} ELSE {})
    IN [st |-> r.st, t |-> r.t, orig |-> orig1, fg |-> fg1]

RECURSIVE merge_items(_, _, _, _, _)

\* the loop of to_return.update(d) over the pairs of d.iter_flat()
merge_items(acc, items, locs, ref, loc) ==
    IF items = <<>> \/ acc.st # "ok" THEN acc
    ELSE merge_items(merge_set(acc, Head(items).k, Head(items).v, ref,
                               loc \o Head(locs)),
                     Tail(items), Tail(locs), ref, loc)

RECURSIVE merge_dicts(_, _)

\* "for d in all_settings: to_return.update(d)"
merge_dicts(acc, all_settings) ==
    IF all_settings = <<>> \/ acc.st # "ok" THEN acc
    ELSE LET d == Head(all_settings)
         IN merge_dicts(merge_items(acc, iter_flat(d.val.d), iter_flat_loc(d.val.d),
                                    d.ref, d.loc),
                        Tail(all_settings))

\* the MERGE of lists with every value appended, lists not extended
merge_lists_append(vals) == vals

RECURSIVE merge_lists(_)

\* the list built by extending with each list and appending anything else
merge_lists(vals) ==
    IF vals = <<>> THEN <<>>
    ELSE (IF IsList(Head(vals)) THEN Head(vals).l ELSE <<Head(vals)>>)
         \o merge_lists(Tail(vals))

\* Outcome of a Manager lookup: st, the value returned, the file groups after it
Got(st, val, fg) == [st |-> st, val |-> val, fg |-> fg]

\* the part of _getex after all_settings is built (lines 370-410)
combine(fg, all_settings, key) ==
    LET vals == [i \in 1..Len(all_settings) |-> all_settings[i].val]
        all_dicts == \A i \in 1..Len(vals) : IsDict(vals[i])
        any_lists == \E i \in 1..Len(vals) : IsList(vals[i])
        m == IF all_dicts THEN mode(key, default_dict_mode)
             ELSE IF any_lists THEN mode(key, default_list_mode)
             ELSE mode(key, default_mode)
    IN IF Len(all_settings) = 0 THEN Got("KeyError", None, fg)
       ELSE IF m = OVERRIDE THEN Got("ok", vals[Len(vals)], fg)
       ELSE IF m = MERGE
       THEN IF all_dicts
            THEN LET r == merge_dicts([st |-> "ok", t |-> NestedDict(<<>>),
                                       orig |-> {}, fg |-> fg], all_settings)
                 IN Got(r.st, IF r.st = "ok" THEN r.t ELSE None, r.fg)
            ELSE IF any_lists THEN Got("ok", List(merge_lists(vals)), fg)
            ELSE Got("ok", List(vals), fg)
       ELSE Got("ValueError", None, fg)

\* Manager._getex
getex(fg, key, groupkey) ==
    IF groupkey # NoGroup /\ groupkey \notin TierSet
    THEN Got("KeyError", None, fg)
    ELSE LET files == iter_files(fg, groupkey, FALSE)
             c == IF key = NoKey THEN collect_all(fg, files) ELSE collect(fg, files, key)
         IN IF c.st # "ok" THEN Got(c.st, None, fg)
            ELSE combine(fg, c.items, key)

\* Manager.get
get(fg, key, default, groupkey) ==
    LET r == getex(fg, key, groupkey)
    IN IF r.st = "KeyError" THEN Got("ok", default, r.fg) ELSE r

----------------------------------------------------------------------------
(* Bounds and the arguments the calls are made with *)

\* at most this many Files are held by the three file tiers together
MaxSources == 2

\* at most this many Manager calls are made
MaxOps == 4

\* add_source(fpath, groupkey, toplevel)
AddArgs ==
    (FileNames \X {"default", "plugin", "user"} \X {NoKey})
    \cup ({"flat.json"} \X {"default", "user"} \X {<<"t">>})
    \cup {<<MissingPath, "user", NoKey>>, <<"flat.json", "Runtime", NoKey>>,
          <<"flat.json", "bogus", NoKey>>}
SetKeys == {<<"k">>, <<"m", "a">>, <<"l">>}
SetValues == {Scalar("v")}
GetKeys == {NoKey, <<"k">>, <<"m">>, <<"m", "a">>, <<"m", "a", "x">>, <<"l">>}
GetGroups == {NoGroup, "default", "user", "runtime"}
\* get(key, Default, groupkey)
GetArgs == (GetKeys \X GetGroups) \cup {<<(<<"k">>), "bogus">>}
ModeKeys == {<<"m">>, <<"l">>}
ModeArgs == CombineMode \cup {"INVALID"}

\* the default argument of get() in the calls made: a value no file holds
Default == Scalar("default")

n_sources(fg) ==
    Len(fg["default"].files) + Len(fg["plugin"].files) + Len(fg["user"].files)

\* the record kept of the last call
Call(op, key, grp, st, val) ==
    [op |-> op, key |-> key, grp |-> grp, st |-> st, val |-> val]

----------------------------------------------------------------------------
(* Manager: the calls *)

\* Manager.__init__
ManagerInit ==
    /\ autoload = TRUE
    /\ file_groups = [g \in TierSet |->
                        IF g = "runtime"
                        THEN GroupFile(File_init(NoPath, TRUE).f)
                        ELSE GroupList(<<>>)]
    /\ mode_table = <<>>
    /\ default_dict_mode = MERGE
    /\ default_list_mode = OVERRIDE
    /\ default_mode = OVERRIDE
    /\ nops = 0
    /\ out = Call("init", NoKey, NoGroup, "ok", None)

\* the effect of Manager.add_source on the file groups, and how it ends
add_source_result(fg, fpath, groupkey, toplevel) ==
    IF lower(groupkey) = "runtime" THEN [st |-> "ok", fg |-> fg]
    ELSE IF exists(fpath) /\ lower(groupkey) \in TierSet
    THEN LET r == File_init(fpath, autoload)
             f == IF toplevel # NoKey THEN deepen(r.f, toplevel) ELSE r.f
         IN IF r.st # "ok" THEN [st |-> r.st, fg |-> fg]
            ELSE [st |-> "ok",
                  fg |-> [fg EXCEPT ![lower(groupkey)].files = Append(@, f)]]
    ELSE [st |-> "ValueError", fg |-> fg]

\* Manager.add_source
add_source(fpath, groupkey, toplevel) ==
    /\ nops < MaxOps
    /\ n_sources(file_groups) < MaxSources
    /\ LET r == add_source_result(file_groups, fpath, groupkey, toplevel)
       IN /\ file_groups' = r.fg
          /\ out' = Call("add_source", toplevel, groupkey, r.st, None)
    /\ nops' = nops + 1
    /\ UNCHANGED <<ndict, file, autoload, mode_table, default_dict_mode,
                   default_list_mode, default_mode>>

\* the effect of Manager.__setitem__ on the file groups, and how it ends
setitem_result(fg, key, value) ==
    IF ~fg["runtime"].isfile THEN [st |-> "AttributeError", fg |-> fg]
    ELSE LET r == File_set(fg["runtime"].files[1], key, value)
         IN [st |-> r.st, fg |-> [fg EXCEPT !["runtime"].files[1] = r.f]]

\* Manager.set / Manager.__setitem__
set(key, value) ==
    /\ nops < MaxOps
    /\ LET r == setitem_result(file_groups, key, value)
       IN /\ file_groups' = r.fg
          /\ out' = Call("set", key, NoGroup, r.st, value)
    /\ nops' = nops + 1
    /\ UNCHANGED <<ndict, file, autoload, mode_table, default_dict_mode,
                   default_list_mode, default_mode>>

\* Manager.get(key, Default, groupkey)
Get(key, groupkey) ==
    /\ nops < MaxOps
    /\ LET r == get(file_groups, key, Default, groupkey)
       IN /\ file_groups' = r.fg
          /\ out' = Call("get", key, groupkey, r.st, r.val)
    /\ nops' = nops + 1
    /\ UNCHANGED <<ndict, file, autoload, mode_table, default_dict_mode,
                   default_list_mode, default_mode>>

\* Manager.set_mode: CombineMode(mode) raises ValueError for anything else
set_mode(key, m) ==
    /\ nops < MaxOps
    /\ IF m \in CombineMode
       THEN /\ mode_table' = (key :> m) @@ mode_table
            /\ out' = Call("set_mode", key, NoGroup, "ok", None)
       ELSE /\ mode_table' = mode_table
            /\ out' = Call("set_mode", key, NoGroup, "ValueError", None)
    /\ nops' = nops + 1
    /\ UNCHANGED <<ndict, file, file_groups, autoload, default_dict_mode,
                   default_list_mode, default_mode>>

\* Manager.default_mode setter
set_default_mode(val) ==
    /\ nops < MaxOps
    /\ default_mode' = val
    /\ out' = Call("default_mode", NoKey, NoGroup, "ok", None)
    /\ nops' = nops + 1
    /\ UNCHANGED <<ndict, file, file_groups, autoload, mode_table, default_dict_mode,
                   default_list_mode>>

\* Manager.default_list_mode setter
set_default_list_mode(val) ==
    /\ nops < MaxOps
    /\ default_list_mode' = val
    /\ out' = Call("default_list_mode", NoKey, NoGroup, "ok", None)
    /\ nops' = nops + 1
    /\ UNCHANGED <<ndict, file, file_groups, autoload, mode_table, default_dict_mode,
                   default_mode>>

\* Manager.default_dict_mode setter
set_default_dict_mode(val) ==
    /\ nops < MaxOps
    /\ default_dict_mode' = val
    /\ out' = Call("default_dict_mode", NoKey, NoGroup, "ok", None)
    /\ nops' = nops + 1
    /\ UNCHANGED <<ndict, file, file_groups, autoload, mode_table, default_list_mode,
                   default_mode>>

RECURSIVE reload_each(_, _)

\* the loop of Manager.reload: f.reload() for each File, until one raises
reload_each(fg, files) ==
    IF files = <<>> THEN [st |-> "ok", fg |-> fg]
    ELSE LET ref == Head(files)
             r == File_reload(file_at(fg, ref))
             fg1 == [fg EXCEPT ![ref.g].files[ref.i] = r.f]
         IN IF r.st # "ok" THEN [st |-> r.st, fg |-> fg1]
            ELSE reload_each(fg1, Tail(files))

\* the effect of Manager.reload on the file groups, and how it ends
reload_result(fg) == reload_each(fg, iter_files(fg, NoGroup, FALSE))

\* Manager.reload
reload ==
    /\ nops < MaxOps
    /\ LET r == reload_result(file_groups)
       IN /\ file_groups' = r.fg
          /\ out' = Call("reload", NoKey, NoGroup, r.st, None)
    /\ nops' = nops + 1
    /\ UNCHANGED <<ndict, file, autoload, mode_table, default_dict_mode,
                   default_list_mode, default_mode>>

\* the file groups after Manager.reset
reset_result(fg) == [g \in TierSet |-> GroupList(<<>>)]

\* Manager.reset
reset ==
    /\ nops < MaxOps
    /\ file_groups' = reset_result(file_groups)
    /\ out' = Call("reset", NoKey, NoGroup, "ok", None)
    /\ nops' = nops + 1
    /\ UNCHANGED <<ndict, file, autoload, mode_table, default_dict_mode,
                   default_list_mode, default_mode>>

\* Manager.autoload setter
set_autoload(auto) ==
    /\ nops < MaxOps
    /\ autoload' = auto
    /\ LET r == IF auto THEN reload_result(file_groups)
                ELSE [st |-> "ok", fg |-> file_groups]
       IN /\ file_groups' = r.fg
          /\ out' = Call("autoload", NoKey, NoGroup, r.st, None)
    /\ nops' = nops + 1
    /\ UNCHANGED <<ndict, file, mode_table, default_dict_mode, default_list_mode,
                   default_mode>>

Init ==
    /\ ndict = NestedDict(<<>>)
    /\ file = File_init(NoPath, TRUE).f
    /\ ManagerInit

Next ==
    \/ \E a \in AddArgs : add_source(a[1], a[2], a[3])
    \/ \E key \in SetKeys, value \in SetValues : set(key, value)
    \/ \E a \in GetArgs : Get(a[1], a[2])
    \/ \E key \in ModeKeys, m \in ModeArgs : set_mode(key, m)
    \/ \E val \in CombineMode : set_default_mode(val)
    \/ \E val \in CombineMode : set_default_list_mode(val)
    \/ \E val \in CombineMode : set_default_dict_mode(val)
    \/ reload
    \/ reset
    \/ \E auto \in BOOLEAN : set_autoload(auto)

Spec == Init /\ [][Next]_vars

----------------------------------------------------------------------------
(* NestedDict in direct use *)

\* at most this many calls are made on the NestedDict
MaxDictOps == 3

\* NestedDict(file_settings), as File._parse returns it: the entries are copied
NestedDict_init(src) == NestedDict(src.d)

\* the trees the calls start from: empty, the _settings of a File that has read
\* one of the files, and the NestedDict built directly from a file's mapping
DictInit ==
    {NestedDict(<<>>)}
    \cup {File_init(fpath, TRUE).f.settings : fpath \in FileNames}
    \cup {NestedDict_init(json_loads(fpath)) : fpath \in FileNames}

DictKeys == {<<"k">>, <<"k", "x">>, <<"m">>, <<"m", "a", "x">>, <<"m", "a", "y">>,
             <<"p", "q">>, <<"p", "q", "r">>}
DictValues == {Scalar("v"), PlainDict(<< Entry(<<"y">>, Scalar("w")) >>)}

\* the mappings update() is called with: flat dotted keys, the same as a nested
\* mapping, and a NestedDict
UpdateArgs ==
    { PlainDict(<< Entry(<<"m", "a", "y">>, S("2")) >>),
      PlainDict(<< Entry(<<"m">>, PlainDict(<< Entry(<<"a">>,
                        PlainDict(<< Entry(<<"y">>, S("2")) >>)) >>)) >>),
      NestedDict_setitem(NestedDict(<<>>), <<"m", "a", "y">>, S("2")).t,
      PlainDict(<< Entry(<<"k", "x">>, S("2")) >>) }

\* ndict[key] = val
dict_set(key, val) ==
    /\ nops < MaxDictOps
    /\ LET r == NestedDict_setitem(ndict, key, val)
       IN /\ ndict' = r.t
          /\ out' = Call("setitem", key, NoGroup, r.st, val)
    /\ nops' = nops + 1
    /\ UNCHANGED <<file, file_groups, autoload, mode_table, default_dict_mode,
                   default_list_mode, default_mode>>

\* ndict[key]
dict_get(key) ==
    /\ nops < MaxDictOps
    /\ LET r == NestedDict_getitem(ndict, key)
       IN out' = Call("getitem", key, NoGroup, r.st, r.val)
    /\ nops' = nops + 1
    /\ UNCHANGED <<ndict, file, file_groups, autoload, mode_table, default_dict_mode,
                   default_list_mode, default_mode>>

\* ndict.update(src)
dict_update(src) ==
    /\ nops < MaxDictOps
    /\ LET r == NestedDict_update(ndict, src)
       IN /\ ndict' = r.t
          /\ out' = Call("update", NoKey, NoGroup, r.st, src)
    /\ nops' = nops + 1
    /\ UNCHANGED <<file, file_groups, autoload, mode_table, default_dict_mode,
                   default_list_mode, default_mode>>

\* ndict.get(key, Default)
dict_get_default(key) ==
    /\ nops < MaxDictOps
    /\ LET r == NestedDict_get(ndict, key, Default)
       IN out' = Call("NestedDict.get", key, NoGroup, r.st, r.val)
    /\ nops' = nops + 1
    /\ UNCHANGED <<ndict, file, file_groups, autoload, mode_table,
                   default_dict_mode, default_list_mode, default_mode>>

\* ndict.pop(key)
dict_pop(key) ==
    /\ nops < MaxDictOps
    /\ LET r == NestedDict_pop(ndict, key)
       IN /\ ndict' = r.t
          /\ out' = Call("pop", key, NoGroup, r.st, r.val)
    /\ nops' = nops + 1
    /\ UNCHANGED <<file, file_groups, autoload, mode_table, default_dict_mode,
                   default_list_mode, default_mode>>

DictInitState ==
    /\ ndict \in DictInit
    /\ file = File_init(NoPath, TRUE).f
    /\ ManagerInit

DictNext ==
    \/ \E key \in DictKeys, val \in DictValues : dict_set(key, val)
    \/ \E key \in DictKeys : dict_get(key)
    \/ \E src \in UpdateArgs : dict_update(src)
    \/ \E key \in DictKeys : dict_get_default(key)
    \/ \E key \in DictKeys : dict_pop(key)

DictSpec == DictInitState /\ [][DictNext]_vars

----------------------------------------------------------------------------
(* File used directly *)

\* the number of calls made on the File
MaxFileOps == 3

\* the paths File(...) and read() are given
FilePaths == FileNames \cup {MissingPath}

\* the Files the calls start from: File(), File(fpath) and
\* File(fpath, autoload=False)
FileInit ==
    {File_init(fpath, auto).f : fpath \in FilePaths \cup {NoPath}, auto \in BOOLEAN}

FileKeys == {<<"k">>, <<"m">>, <<"m", "a">>, <<"m", "a", "x">>, <<"l", "x">>}
FileValues == {Scalar("v")}

\* file.read(fpath)
file_read(fpath) ==
    /\ nops < MaxFileOps
    /\ LET r == File_read(file, fpath)
       IN /\ file' = r.f
          /\ out' = Call("File.read", NoKey, fpath, r.st, None)
    /\ nops' = nops + 1
    /\ UNCHANGED <<ndict, file_groups, autoload, mode_table, default_dict_mode,
                   default_list_mode, default_mode>>

\* file.reset(); the call record keeps the path the File had
file_reset ==
    /\ nops < MaxFileOps
    /\ file' = File_reset(file)
    /\ out' = Call("File.reset", NoKey, file.path, "ok", None)
    /\ nops' = nops + 1
    /\ UNCHANGED <<ndict, file_groups, autoload, mode_table, default_dict_mode,
                   default_list_mode, default_mode>>

\* file.reload(); the call record keeps the path the File had
file_reload ==
    /\ nops < MaxFileOps
    /\ LET r == File_reload(file)
       IN /\ file' = r.f
          /\ out' = Call("File.reload", NoKey, file.path, r.st, None)
    /\ nops' = nops + 1
    /\ UNCHANGED <<ndict, file_groups, autoload, mode_table, default_dict_mode,
                   default_list_mode, default_mode>>

\* file.get(key, Default)
file_get(key) ==
    /\ nops < MaxFileOps
    /\ LET r == File_get(file, key, Default)
       IN out' = Call("File.get", key, NoGroup, r.st, r.val)
    /\ nops' = nops + 1
    /\ UNCHANGED <<ndict, file, file_groups, autoload, mode_table,
                   default_dict_mode, default_list_mode, default_mode>>

\* file.set(key, value)
file_set(key, value) ==
    /\ nops < MaxFileOps
    /\ LET r == File_set(file, key, value)
       IN /\ file' = r.f
          /\ out' = Call("File.set", key, NoGroup, r.st, value)
    /\ nops' = nops + 1
    /\ UNCHANGED <<ndict, file_groups, autoload, mode_table, default_dict_mode,
                   default_list_mode, default_mode>>

FileInitState ==
    /\ ndict = NestedDict(<<>>)
    /\ file \in FileInit
    /\ ManagerInit

FileNext ==
    \/ \E fpath \in FilePaths : file_read(fpath)
    \/ file_reset
    \/ file_reload
    \/ \E key \in FileKeys : file_get(key)
    \/ \E key \in FileKeys, value \in FileValues : file_set(key, value)

FileSpec == FileInitState /\ [][FileNext]_vars

----------------------------------------------------------------------------
(* Vocabulary of the properties *)

RECURSIVE PyEq(_, _)

\* Python's x == y: a dict equals a NestedDict with the same items, in any order
PyEq(x, y) ==
    CASE IsDict(x) /\ IsDict(y) ->
            /\ Len(x.d) = Len(y.d)
            /\ \A i \in 1..Len(x.d) :
                  /\ dict_contains(y.d, x.d[i].k)
                  /\ PyEq(x.d[i].v, dict_getitem(y.d, x.d[i].k))
      [] IsList(x) /\ IsList(y) ->
            /\ Len(x.l) = Len(y.l)
            /\ \A i \in 1..Len(x.l) : PyEq(x.l[i], y.l[i])
      [] x.tag = "S" /\ y.tag = "S" -> x.s = y.s
      [] OTHER -> FALSE

RECURSIVE Leaves(_)

\* the leaves of a nested mapping, each with its full path: a leaf is a value
\* that is not a mapping, whichever class the mappings on the way belong to
Leaves(x) ==
    UNION { IF IsDict(x.d[i].v)
            THEN {[p |-> x.d[i].k \o lf.p, v |-> lf.v] : lf \in Leaves(x.d[i].v)}
            ELSE {[p |-> x.d[i].k, v |-> x.d[i].v]} : i \in 1..Len(x.d) }

LeafPaths(x) == {lf.p : lf \in Leaves(x)}

\* two paths are related when they are equal or one extends the other
Related(p, q) == IsPrefix(p, q) \/ IsPrefix(q, p)

\* the step just taken was the call `op`
Called(op) == out'.op = op /\ nops' = nops + 1

\* the Files scanned for groupkey that hold a value at key, lowest priority first
Holders(fg, key, groupkey) ==
    SelectSeq(iter_files(fg, groupkey, FALSE),
              LAMBDA ref : File_getitem(file_at(fg, ref), key).st = "ok")

\* the values those Files hold at key
Collected(fg, key, groupkey) ==
    LET h == Holders(fg, key, groupkey)
    IN [i \in 1..Len(h) |-> File_getitem(file_at(fg, h[i]), key).val]

\* the combination mode of key, given the values collected for it
EffectiveMode(key, vals) ==
    IF key \in DOMAIN mode_table THEN mode_table[key]
    ELSE IF \A i \in 1..Len(vals) : IsDict(vals[i]) THEN default_dict_mode
    ELSE IF \E i \in 1..Len(vals) : IsList(vals[i]) THEN default_list_mode
    ELSE default_mode

\* the file groups with every tier but g emptied
OnlyTier(fg, g) == [t \in TierSet |-> IF t = g THEN fg[t] ELSE GroupList(<<>>)]

----------------------------------------------------------------------------
(* Properties *)

\* C1: when the effective combination mode of a path is OVERRIDE, get(path)
\* returns exactly the value stored at that path in the highest-priority scanned
\* File that holds the path; lower-priority Files have no influence.
C1_OverrideReturnsHighestPriority ==
    [][ (Called("get") /\ out'.key # NoKey /\ out'.grp \in TierSet \cup {NoGroup})
        => LET vals == Collected(file_groups, out'.key, out'.grp)
           IN (vals # <<>> /\ EffectiveMode(out'.key, vals) = OVERRIDE)
              => (out'.st = "ok" /\ out'.val = vals[Len(vals)]) ]_vars

\* every scanned File either holds key or reports it absent with KeyError
Resolves(fg, key, groupkey) ==
    LET fs == iter_files(fg, groupkey, FALSE)
    IN \A i \in 1..Len(fs) :
          File_getitem(file_at(fg, fs[i]), key).st \in {"ok", "KeyError"}

\* no leaf path of one value extends a leaf path of another
Compatible(vals) ==
    \A i \in 1..Len(vals), j \in 1..Len(vals) :
       \A p \in LeafPaths(vals[i]), q \in LeafPaths(vals[j]) : Related(p, q) => p = q

\* C2: when every value collected for a path is a dict and the effective mode is
\* MERGE, get(path) returns their deep merge: the leaf paths of the result are
\* the union of the leaf paths of the collected dicts, and each leaf carries the
\* value of the highest-priority File that defines it. Stated for lookups that
\* every scanned File resolves and for dicts whose leaf paths do not conflict.
C2_MergeIsDeepMerge ==
    [][ (/\ Called("get") /\ out'.key # NoKey /\ out'.grp \in TierSet \cup {NoGroup}
         /\ Resolves(file_groups, out'.key, out'.grp))
        => LET vals == Collected(file_groups, out'.key, out'.grp)
               last(p) == CHOOSE i \in 1..Len(vals) :
                             /\ p \in LeafPaths(vals[i])
                             /\ \A j \in (i + 1)..Len(vals) : p \notin LeafPaths(vals[j])
           IN (/\ vals # <<>>
               /\ \A i \in 1..Len(vals) : IsDict(vals[i])
               /\ Compatible(vals)
               /\ EffectiveMode(out'.key, vals) = MERGE)
              => /\ out'.st = "ok"
                 /\ IsDict(out'.val)
                 /\ LeafPaths(out'.val) =
                        UNION {LeafPaths(vals[i]) : i \in 1..Len(vals)}
                 /\ \A lf \in Leaves(out'.val) :
                        [p |-> lf.p, v |-> lf.v] \in Leaves(vals[last(lf.p)]) ]_vars

\* C3: after set(path, v) has succeeded, with the effective mode of the path
\* OVERRIDE, get(path) returns v, whatever the file tiers hold at the path or at
\* its prefixes.
C3_SetThenGetReturnsValue ==
    [][ (/\ out.op = "set" /\ out.st = "ok"
         /\ Called("get") /\ out'.key = out.key /\ out'.grp = NoGroup
         /\ EffectiveMode(out.key, Collected(file_groups, out.key, NoGroup)) = OVERRIDE)
        => (out'.st = "ok" /\ out'.val = out.val) ]_vars

\* C4: get(path, groupkey=g) for a tier g depends only on the Files of tier g
\* (it returns what a manager whose other tiers are empty returns), and a key
\* that no File of tier g holds yields the default.
C4_GroupFilterIsolatesTier ==
    [][ (Called("get") /\ out'.grp \in TierSet)
        => /\ LET alone == get(OnlyTier(file_groups, out'.grp), out'.key, Default,
                               out'.grp)
              IN out'.st = alone.st /\ out'.val = alone.val
           /\ (out'.key # NoKey /\ Holders(file_groups, out'.key, out'.grp) = <<>>)
              => (out'.st = "ok" /\ out'.val = Default) ]_vars

\* C5: reload(), and switching autoload on, leave the runtime File exactly as it
\* was.
C5_ReloadKeepsRuntime ==
    [][ (Called("reload") \/ (Called("autoload") /\ autoload'))
        => file_groups'["runtime"] = file_groups["runtime"] ]_vars

\* C6: in every reachable state the runtime tier holds exactly one File and that
\* File has no path; a set() never fails for want of it.
C6_ExactlyOneRuntimeSource ==
    /\ file_groups["runtime"].isfile
    /\ Len(file_groups["runtime"].files) = 1
    /\ file_groups["runtime"].files[1].path = NoPath
    /\ (out.op = "set" => out.st # "AttributeError")

\* C7: if t[p] = v completes without error, the get t[p] that follows returns v.
C7_SetThenGetItem ==
    (out.op = "setitem" /\ out.st = "ok")
        => NestedDict_getitem(ndict, out.key) = Ok(out.val)

\* C7 witness: a set on a three-segment path has completed and the get returns
\* the value set.
C7_Witness ==
    /\ out.op = "setitem" /\ out.st = "ok" /\ Len(out.key) = 3
    /\ NestedDict_getitem(ndict, out.key) = Ok(out.val)

\* C8: update(src) is a deep merge whichever shape src has: afterwards every
\* leaf path of src holds src's value, and every leaf of the original tree whose
\* path is unrelated to the leaf paths of src keeps its value.
C8_UpdateIsDeepMerge ==
    [][ (Called("update") /\ out'.st = "ok")
        => /\ \A lf \in Leaves(out'.val) : lf \in Leaves(ndict')
           /\ \A lf \in Leaves(ndict) :
                 (\A q \in LeafPaths(out'.val) : ~Related(lf.p, q))
                 => lf \in Leaves(ndict') ]_vars

\* C9: a set on a path one of whose proper prefixes resolves to a value that is
\* not a container raises KeyError and leaves the tree unchanged.
C9_SetThroughScalarRejected ==
    [][ (/\ Called("setitem")
         /\ \E n \in 1..(Len(out'.key) - 1) :
               LET r == NestedDict_getitem(ndict, SubSeq(out'.key, 1, n))
               IN r.st = "ok" /\ ~IsDict(r.val))
        => (out'.st = "KeyError" /\ ndict' = ndict) ]_vars

\* a File of the manager whose _settings are those read from fpath
Loaded(f, fpath) == f.path = fpath /\ f.settings = File_init(fpath, TRUE).f.settings

\* C10: a File loaded from the nested mapping and a File loaded from the
\* equivalent flat mapping of dotted keys give the same result for every path.
C10_NestedAndFlatEquivalent ==
    \A g1 \in TierSet, g2 \in TierSet :
       \A i1 \in 1..Len(file_groups[g1].files), i2 \in 1..Len(file_groups[g2].files) :
          LET f1 == file_groups[g1].files[i1]
              f2 == file_groups[g2].files[i2]
          IN (Loaded(f1, "nested.json") /\ Loaded(f2, "flat.json"))
             => \A key \in GetKeys \ {NoKey} :
                   LET r1 == File_get(f1, key, Default)
                       r2 == File_get(f2, key, Default)
                   IN r1.st = r2.st /\ PyEq(r1.val, r2.val)

\* the File that the add_source call recorded in o appended to its tier
AddedFile(fg, o) == fg[lower(o.grp)].files[Len(fg[lower(o.grp)].files)]

\* o records an add_source call that added a File under a top-level key
AddedUnder(o) ==
    /\ o.op = "add_source" /\ o.st = "ok" /\ o.key # NoKey
    /\ lower(o.grp) \in TierSet \ {"runtime"}

\* every setting of f's file is addressable in f as K.<path>
UnderToplevel(f, K) ==
    \A lf \in Leaves(json_loads(f.path)) : File_get(f, K \o lf.p, Default) = Ok(lf.v)

\* no setting of f's file is addressable in f at its bare <path>
NotAtBarePath(f) ==
    \A lf \in Leaves(json_loads(f.path)) : File_get(f, lf.p, Default) = Ok(Default)

\* C11: a File added with toplevel=K never holds a setting of its file at the
\* bare path, right after the add and after a Manager.reload() that follows it,
\* and holds every setting as K.<path> once the file has been read (at the add
\* when autoload is on, at the reload otherwise).
C11_ToplevelKeptAcrossReload ==
    [][ /\ (Called("add_source") /\ AddedUnder(out'))
           => LET f == AddedFile(file_groups', out')
              IN NotAtBarePath(f) /\ (autoload => UnderToplevel(f, out'.key))
        /\ (AddedUnder(out) /\ Called("reload"))
           => LET f == AddedFile(file_groups', out)
              IN NotAtBarePath(f) /\ UnderToplevel(f, out.key) ]_vars

\* C12: File.get(path, default) never raises: it returns the stored value when
\* the lookup of path succeeds and the default otherwise, also when an
\* intermediate segment holds a scalar or a list, and leaves the File unchanged.
C12_FileGetNeverRaises ==
    [][ Called("File.get")
        => LET r == File_getitem(file, out'.key)
           IN /\ out'.st = "ok"
              /\ out'.val = (IF r.st = "ok" THEN r.val ELSE Default)
              /\ file' = file ]_vars

\* C13: NestedDict.get(path, default) never raises: it returns the stored value
\* when the item lookup of path succeeds and the caller's default otherwise, at
\* any depth, and leaves the tree unchanged.
C13_DictGetReturnsDefault ==
    [][ Called("NestedDict.get")
        => LET r == NestedDict_getitem(ndict, out'.key)
           IN /\ out'.st = "ok"
              /\ out'.val = (IF r.st = "ok" THEN r.val ELSE Default)
              /\ ndict' = ndict ]_vars

\* the NestedDict levels of x hold no key that contains the separator
RECURSIVE PlainKeys(_)
PlainKeys(x) ==
    \A i \in 1..Len(x.d) :
       /\ Len(x.d[i].k) = 1
       /\ IsNestedDict(x.d[i].v) => PlainKeys(x.d[i].v)

\* an empty tree on which every pair of t.iter_flat() is set, in order
Rebuilt(t) == set_each(NestedDict(<<>>), iter_flat(t.d))

\* C14: for every tree built by set, pop and update, setting each pair of
\* iter_flat() on an empty tree succeeds and yields a tree equal to it.
C14_FlattenRoundTrip ==
    PlainKeys(ndict) => (Rebuilt(ndict).st = "ok" /\ PyEq(Rebuilt(ndict).t, ndict))

RECURSIVE Extended(_, _)

\* the list obtained from the first n values, taken in order, by extending it
\* with each list and appending each other value
Extended(vals, n) ==
    IF n = 0 THEN <<>>
    ELSE Extended(vals, n - 1) \o (IF IsList(vals[n]) THEN vals[n].l ELSE <<vals[n]>>)

\* C15: when the values collected for a path include a list and the effective
\* mode is MERGE, get returns the list built in ascending priority by extending
\* it with each list value and appending each other value, and no File changes.
C15_ListMerge ==
    [][ (/\ Called("get") /\ out'.key # NoKey /\ out'.grp \in TierSet \cup {NoGroup}
         /\ Resolves(file_groups, out'.key, out'.grp))
        => LET vals == Collected(file_groups, out'.key, out'.grp)
           IN (/\ \E i \in 1..Len(vals) : IsList(vals[i])
               /\ EffectiveMode(out'.key, vals) = MERGE)
              => /\ out'.st = "ok"
                 /\ out'.val = List(Extended(vals, Len(vals)))
                 /\ file_groups' = file_groups ]_vars

\* C15 witness: with l = [1,2] in one File and l = [3] in a later one, a get
\* has returned [1,2,3].
C15_Witness ==
    /\ out.op = "get" /\ out.st = "ok" /\ out.key = <<"l">>
    /\ out.val = List(<<S("1"), S("2"), S("3")>>)

\* C16: for every group filter, iter_files(groupkey, reverse=True) yields exactly
\* the reverse of what iter_files(groupkey, reverse=False) yields in the same
\* state, also when a tier holds two or more Files.
C16_ReverseIsExactReverse ==
    \A g \in TierSet \cup {NoGroup} :
       iter_files(file_groups, g, TRUE) = Reverse(iter_files(file_groups, g, FALSE))

\* a File that holds no settings
IsEmpty(f) == f.settings = NestedDict(<<>>)

\* the steps of the File lifecycle that do not involve a reload after a reset:
\* a read of an existing path into an Empty File ends Loaded, a reset ends
\* Empty, and a read of a missing path into an Empty File ends Empty with no
\* path recorded and raises nothing
LoadAndResetSteps ==
    /\ (Called("File.read") /\ IsEmpty(file) /\ exists(out'.grp))
       => (out'.st = "ok" /\ Loaded(file', out'.grp))
    /\ Called("File.reset") => IsEmpty(file')
    /\ (Called("File.read") /\ IsEmpty(file) /\ ~exists(out'.grp))
       => (out'.st = "ok" /\ IsEmpty(file') /\ file'.path = NoPath)

\* C17 as stated: Empty to Loaded on a successful load, Loaded to Empty on
\* reset, and back to Loaded on a reload issued after that reset; a load of a
\* missing path leaves the File Empty with no path and raises no error.
C17_ReloadAfterResetLoads ==
    [][ /\ LoadAndResetSteps
        /\ (out.op = "File.reset" /\ exists(out.grp) /\ Called("File.reload"))
           => Loaded(file', out.grp) ]_vars

\* C17 amended: Empty to Loaded on a successful load, Loaded to Empty on reset,
\* which clears the path too, so a reload issued after that reset leaves the
\* File Empty with no path; a reload of a File that has an existing path ends
\* Loaded; a load of a missing path leaves the File Empty with no path and
\* raises no error.
C17_Lifecycle ==
    [][ /\ LoadAndResetSteps
        /\ (out.op = "File.reset" /\ Called("File.reload"))
           => (out'.st = "ok" /\ IsEmpty(file') /\ file'.path = NoPath)
        /\ (Called("File.reload") /\ exists(file.path))
           => (out'.st = "ok" /\ Loaded(file', file.path)) ]_vars

\* C17 witness: a reload has run on a File that had no path and left it Empty.
C17_Witness ==
    /\ out.op = "File.reload" /\ out.st = "ok" /\ out.grp = NoPath
    /\ IsEmpty(file) /\ file.path = NoPath

\* the first segments of the leaf paths of x
TopKeys(x) == {<<Head(p)>> : p \in LeafPaths(x)}

\* what a lookup returns for the collected values vals when they are combined
\* in mode m, as far as the mode shows in the result: OVERRIDE gives the last
\* value; MERGE gives the extended list when a list was collected, the list of
\* all values when no list and not only dicts were collected, and for dicts a
\* new NestedDict with the top-level keys of all of them (or the default, when
\* the dicts cannot be merged)
ResultShows(m, vals, st, val) ==
    LET all_dicts == \A i \in 1..Len(vals) : IsDict(vals[i])
        any_lists == \E i \in 1..Len(vals) : IsList(vals[i])
    IN /\ st = "ok"
       /\ CASE m = OVERRIDE -> val = vals[Len(vals)]
            [] m = MERGE /\ any_lists -> val = List(Extended(vals, Len(vals)))
            [] m = MERGE /\ ~any_lists /\ ~all_dicts -> val = List(vals)
            [] OTHER -> \/ val = Default
                        \/ /\ IsNestedDict(val)
                           /\ \A i \in 1..Len(vals) :
                                 \A k \in TopKeys(vals[i]) : dict_contains(val.d, k)

\* C18: the mode a lookup of a path combines with is the mode registered for
\* the path with set_mode, if any; otherwise default_dict_mode when every
\* collected value is a dict, otherwise default_list_mode when a collected value
\* is a list, otherwise default_mode (so dicts mixed with scalars count as
\* scalars). Stated on the result of every get whose collection completes.
C18_EffectiveMode ==
    [][ (/\ Called("get") /\ out'.key # NoKey /\ out'.grp \in TierSet \cup {NoGroup}
         /\ Resolves(file_groups, out'.key, out'.grp))
        => LET vals == Collected(file_groups, out'.key, out'.grp)
               m == IF out'.key \in DOMAIN mode_table THEN mode_table[out'.key]
                    ELSE IF \A i \in 1..Len(vals) : IsDict(vals[i])
                         THEN default_dict_mode
                    ELSE IF \E i \in 1..Len(vals) : IsList(vals[i])
                         THEN default_list_mode
                    ELSE default_mode
           IN vals # <<>> => ResultShows(m, vals, out'.st, out'.val) ]_vars

\* C18 witness: a get of m has returned the value of the last File although
\* two Files hold dicts at m and default_dict_mode is MERGE, because OVERRIDE
\* is registered for m.
C18_Witness ==
    LET vals == Collected(file_groups, <<"m">>, out.grp)
    IN /\ out.op = "get" /\ out.st = "ok" /\ out.key = <<"m">> /\ out.grp = NoGroup
       /\ <<"m">> \in DOMAIN mode_table /\ mode_table[<<"m">>] = OVERRIDE
       /\ default_dict_mode = MERGE
       /\ Len(vals) >= 2 /\ \A i \in 1..Len(vals) : IsDict(vals[i])
       /\ vals[1] # vals[Len(vals)]
       /\ out.val = vals[Len(vals)]

\* C19: a lookup never changes the manager: every get, for any path (None
\* included), group filter and mode, leaves the Files, the tier lists and the
\* mode table as they were, and a get repeated right away ends the same way
\* with an equal result.
C19_LookupsNeverMutate ==
    [][ Called("get")
        => /\ file_groups' = file_groups
           /\ mode_table' = mode_table
           /\ (out.op = "get" /\ out.key = out'.key /\ out.grp = out'.grp)
              => (out'.st = out.st /\ PyEq(out'.val, out.val)) ]_vars

====
